---- MODULE Spec2Model ----
(***************************************************************************)
(* Model of lib/gqlgen.js: the GraphQL type resolver (getGraphqlType),     *)
(* the scalar mapping (scalarMap), the artifact extractor (generate) and   *)
(* the file writer loop of the `generate` command action.                  *)
(*                                                                         *)
(* AST nodes are records shaped as graphql-js builds them.  A JavaScript   *)
(* call either returns a value or throws: it is modelled as a completion   *)
(* record, [value |-> v] or [thrown |-> message].                          *)
(***************************************************************************)
EXTENDS Integers, Sequences, FiniteSets, TLC

VARIABLES
    fieldType,    \* resolver run: the type node handed to getGraphqlType
    descriptor,   \* resolver run: completion of getGraphqlType(fieldType)
    tsType,       \* resolver run: scalarMap[graphqlType] || graphqlType
    schema,       \* command run: the parsed document (schema.definitions)
    pc,           \* command run: position of the action callback
    files,        \* command run: the list returned by generate(schema)
    err,          \* command run: message of the uncaught exception, if any
    idx,          \* command run: index of the next file of the for-of loop
    fs,           \* output directory: path -> contents of the files in it
    dirs,         \* output directory: the directories that exist
    written,      \* paths written by writeFileSync during this run
    run,          \* number of the current invocation of the command
    before        \* the output directory as this invocation found it, and the
                  \* paths the previous invocation wrote

vars == <<fieldType, descriptor, tsType, schema, pc, files, err, idx, fs, dirs,
          written, run, before>>

typeVars == <<fieldType, descriptor, tsType>>
runVars == <<schema, pc, files, err, idx, fs, dirs, written, run, before>>

-----------------------------------------------------------------------------
(* Bounds *)

\* nesting levels of a type node, the NamedType leaf included
MaxDepth == 4
\* number of definitions of a schema document
MaxDefs == 4
\* number of invocations of the command on one output directory
MaxRuns == 2

-----------------------------------------------------------------------------
(* JavaScript values *)

Undefined == [undefined |-> TRUE]
IsUndefined(v) == "undefined" \in DOMAIN v

\* o.p for an object o: the property, or undefined when o has no such property
HasProp(o, p) == p \in DOMAIN o
Prop(o, p) == IF HasProp(o, p) THEN o[p] ELSE Undefined

Return(v) == [value |-> v]
Throw(m) == [thrown |-> m]
Threw(c) == "thrown" \in DOMAIN c

\* the TypeError of reading property p of undefined
TypeErrorOf(p) == Throw("TypeError: Cannot read property '" \o p \o "' of undefined")

NotRun == [notRun |-> TRUE]
HasRun(c) == "notRun" \notin DOMAIN c

-----------------------------------------------------------------------------
(* Type nodes of the AST *)

NamedType(n) == [kind |-> "NamedType", name |-> [kind |-> "Name", value |-> n]]
NonNullType(t) == [kind |-> "NonNullType", type |-> t]
ListType(t) == [kind |-> "ListType", type |-> t]

\* base names: the seven names of scalarMap, an artifact name, and two
\* identifiers that are also members of Object.prototype
BaseNames == {"ID", "String", "Float", "Int", "Boolean", "DateTime", "Dictionary",
              "Widget", "constructor", "toString"}

RECURSIVE TypeNodes(_)
TypeNodes(d) ==
    IF d <= 1 THEN {NamedType(n) : n \in BaseNames}
    ELSE LET inner == TypeNodes(d - 1)
         \* the grammar has NamedType! and ListType!, never a NonNullType of a NonNullType
         IN inner \cup {NonNullType(t) : t \in {u \in inner : u.kind # "NonNullType"}}
                  \cup {ListType(t) : t \in inner}

-----------------------------------------------------------------------------
(* Type resolver *)

\* a resolver that reports a directly named type as non-nullable
getNullableGraphqlType_nonNull(t) ==
    Return([type |-> t.name.value, isNullable |-> FALSE, isArray |-> FALSE])

getNullableGraphqlType(t) ==
    Return([type |-> t.name.value, isNullable |-> TRUE, isArray |-> FALSE])

getListItemGraphqlType(t) ==
    IF IsUndefined(t) THEN TypeErrorOf("kind")
    ELSE IF t.kind = "NonNullType" THEN
        \* fieldType.type.name.value
        IF ~HasProp(t.type, "name") THEN TypeErrorOf("value")
        ELSE Return(t.type.name.value)
    ELSE IF t.kind = "NamedType" THEN Return(t.name.value)
    ELSE Throw("Error: Unsupported type nesting level")

\* case 'ListType': the item handed to getListItemGraphqlType
ListCaseItem(t) == Prop(t.type, "type")

getGraphqlType(t) ==
    CASE t.kind = "NamedType" -> getNullableGraphqlType(t)
      [] t.kind = "NonNullType" ->
            IF t.type.kind = "NamedType" THEN
                LET nestedNamedType == getNullableGraphqlType(t.type)
                IN Return([type |-> nestedNamedType.value.type,
                           isNullable |-> FALSE, isArray |-> FALSE])
            ELSE IF t.type.kind = "ListType" THEN
                LET nestedListType == getListItemGraphqlType(t.type.type)
                IN IF Threw(nestedListType) THEN nestedListType
                   ELSE Return([type |-> nestedListType.value,
                                isNullable |-> FALSE, isArray |-> TRUE])
            ELSE Throw("Error: Unsupported type hierarchy")
      [] t.kind = "ListType" ->
            LET nestedListType == getListItemGraphqlType(ListCaseItem(t))
            IN IF Threw(nestedListType) THEN nestedListType
               ELSE Return([type |-> nestedListType.value,
                            isNullable |-> TRUE, isArray |-> TRUE])
      [] OTHER -> Throw("Error: Unsupported case")

-----------------------------------------------------------------------------
(* Scalar mapping *)

scalarMap == [ID |-> "string", String |-> "string", Float |-> "number",
              Int |-> "number", Boolean |-> "boolean", DateTime |-> "Date",
              Dictionary |-> "{ [key: string]: any }"]

\* scalarMap is an object literal: a lookup that finds no own property goes on
\* to Object.prototype, whose members are functions (named here by a string)
ObjectPrototype == [constructor |-> "[Function: Object]",
                    toString |-> "[Function: toString]",
                    valueOf |-> "[Function: valueOf]",
                    hasOwnProperty |-> "[Function: hasOwnProperty]"]

\* scalarMap[graphqlType] || graphqlType: every value the lookup can find is
\* truthy, so the right operand is taken only when the lookup is undefined
mappedType(graphqlType) ==
    IF graphqlType \in DOMAIN scalarMap THEN scalarMap[graphqlType]
    ELSE IF graphqlType \in DOMAIN ObjectPrototype THEN ObjectPrototype[graphqlType]
    ELSE graphqlType

-----------------------------------------------------------------------------
(* Definitions and fields of the AST *)

Name(n) == [kind |-> "Name", value |-> n]
StringValue(d) == [kind |-> "StringValue", value |-> d]

\* a node without a description has no description property
InputValueDefinition(n, t) ==
    [kind |-> "InputValueDefinition", name |-> Name(n), type |-> t]
FieldDefinition(n, args, t) ==
    [kind |-> "FieldDefinition", name |-> Name(n), arguments |-> args, type |-> t]
Described(node, d) == [p \in DOMAIN node \cup {"description"} |->
                          IF p = "description" THEN StringValue(d) ELSE node[p]]
EnumValueDefinition(n) == [kind |-> "EnumValueDefinition", name |-> Name(n)]

\* object types and type extensions hold FieldDefinitions;
\* input types hold InputValueDefinitions
FieldsDefinition(k, n, fields) == [kind |-> k, name |-> Name(n), fields |-> fields]
EnumTypeDefinition(n, values) ==
    [kind |-> "EnumTypeDefinition", name |-> Name(n), values |-> values]
ScalarTypeDefinition(n) == [kind |-> "ScalarTypeDefinition", name |-> Name(n)]
\* schema { query: Query mutation: Mutation }: a definition without a name
SchemaDefinition ==
    [kind |-> "SchemaDefinition",
     operationTypes |-> <<[operation |-> "query", type |-> NamedType("Query")],
                          [operation |-> "mutation", type |-> NamedType("Mutation")]>>]

argX == InputValueDefinition("x", NonNullType(NamedType("String")))

QueryType ==
    FieldsDefinition("ObjectTypeDefinition", "Query",
        <<Described(FieldDefinition("a", <<>>, NonNullType(NamedType("ID"))), "the a"),
          FieldDefinition("w", <<argX>>,
                          NonNullType(ListType(NonNullType(NamedType("Widget")))))>>)
MutationType ==
    FieldsDefinition("ObjectTypeDefinition", "Mutation",
        <<FieldDefinition("a", <<Described(argX, "the x")>>,
                          NonNullType(NamedType("Widget")))>>)
WidgetType ==
    Described(FieldsDefinition("ObjectTypeDefinition", "Widget",
        <<Described(FieldDefinition("id", <<>>, NonNullType(NamedType("ID"))), "the id"),
          FieldDefinition("tags", <<>>, ListType(NonNullType(NamedType("String"))))>>),
        "a widget")
WidgetEnum ==
    EnumTypeDefinition("Widget",
        <<Described(EnumValueDefinition("v1"), "first"), EnumValueDefinition("v2")>>)
WidgetInput ==
    FieldsDefinition("InputObjectTypeDefinition", "Widget",
        <<Described(InputValueDefinition("name", NamedType("String")), "the name")>>)
\* rows: [[Int]]
MatrixType ==
    FieldsDefinition("ObjectTypeDefinition", "Matrix",
        <<FieldDefinition("rows", <<>>, ListType(ListType(NamedType("Int"))))>>)
\* cells: [[Int]]!
GridType ==
    FieldsDefinition("ObjectTypeDefinition", "Grid",
        <<FieldDefinition("cells", <<>>,
                          NonNullType(ListType(ListType(NamedType("Int")))))>>)
SubscriptionType ==
    FieldsDefinition("ObjectTypeDefinition", "Subscription",
        <<FieldDefinition("s", <<>>, NamedType("Int"))>>)
\* extend type Query { x: Int }
QueryExtension ==
    FieldsDefinition("ObjectTypeExtension", "Query",
        <<FieldDefinition("x", <<>>, NamedType("Int"))>>)

\* the definitions a document is drawn from
Definitions ==
    {QueryType, MutationType, WidgetType, WidgetEnum, WidgetInput, MatrixType,
     GridType, SubscriptionType, QueryExtension,
     SchemaDefinition, ScalarTypeDefinition("DateTime")}

\* the documents of at most n definitions
Documents(n) == UNION {[1..k -> Definitions] : k \in 0..n}

-----------------------------------------------------------------------------
(* Artifact extractor *)

\* a reserved list that misses the placeholder names
graphqlArtifactNames_roots == <<"Query", "Mutation">>

graphqlArtifactNames == <<"Query", "Mutation", "Subscription", "root">>

\* graphqlArtifactNames.indexOf(n) === -1
NotArtifactName(n) == \A i \in 1..Len(graphqlArtifactNames) : graphqlArtifactNames[i] # n

\* a description read from the node's kind instead of its value
descriptionOf_kind(node) ==
    LET d == Prop(node, "description")
    IN IF IsUndefined(d) THEN "" ELSE d.kind

\* node.description && node.description.value || ''
descriptionOf(node) ==
    LET d == Prop(node, "description")
    IN IF IsUndefined(d) THEN "" ELSE IF d.value = "" THEN "" ELSE d.value

\* The({Body(v) : v \in {e}}) is `const v = e` followed by Body(v): e is
\* evaluated once, before the body
The(singleton) == CHOOSE r \in singleton : TRUE

\* array.map(f) where f may throw: the first exception ends the map
MapAll(completions) ==
    The({IF \E i \in 1..Len(cs) : Threw(cs[i])
         THEN cs[CHOOSE i \in 1..Len(cs) :
                    Threw(cs[i]) /\ \A j \in 1..(i - 1) : ~Threw(cs[j])]
         ELSE Return([i \in 1..Len(cs) |-> cs[i].value])
         : cs \in {completions}})

\* the record of a field of an object or input type, or of an argument
fieldRecord(field) ==
    The({IF Threw(c) THEN c
         ELSE Return([name |-> field.name.value,
                      description |-> descriptionOf(field),
                      graphqlType |-> c.value.type,
                      isNullable |-> c.value.isNullable,
                      isArray |-> c.value.isArray,
                      type |-> mappedType(c.value.type)])
         : c \in {getGraphqlType(field.type)}})

\* the record of an object or input type
fieldsRecord(def) ==
    The({IF Threw(fields) THEN fields
         ELSE Return([name |-> def.name.value,
                      description |-> descriptionOf(def),
                      fields |-> fields.value])
         : fields \in {MapAll([i \in 1..Len(def.fields) |-> fieldRecord(def.fields[i])])}})

enumRecord(def) ==
    [name |-> def.name.value,
     description |-> descriptionOf(def),
     values |-> [i \in 1..Len(def.values) |->
                    [name |-> def.values[i].name.value,
                     description |-> descriptionOf(def.values[i])]]]

\* a compiled handlebars template applied to a record
renderTemplate(template, data) == [template |-> template, data |-> data]

\* a file name is kept as its path segments, `types/${name}.ts` as <<"types", name.ts>>
typeFile(r) ==
    [filename |-> <<"types", r.name \o ".ts">>, contents |-> renderTemplate("type", r)]
inputFile(r) ==
    [filename |-> <<"inputs", r.name \o ".ts">>, contents |-> renderTemplate("input", r)]
enumFile(r) ==
    [filename |-> <<"types", r.name \o ".ts">>, contents |-> renderTemplate("enum", r)]
\* a query operation filed under the mutations directory
queryFile_mutations(r) ==
    [filename |-> <<"resolvers", "mutations", r.name \o ".ts">>,
     contents |-> renderTemplate("resolver", r)]

queryFile(r) ==
    [filename |-> <<"resolvers", "queries", r.name \o ".ts">>,
     contents |-> renderTemplate("resolver", r)]
mutationFile(r) ==
    [filename |-> <<"resolvers", "mutations", r.name \o ".ts">>,
     contents |-> renderTemplate("resolver", r)]

IsObjectType(def) ==
    def.kind = "ObjectTypeDefinition" /\ NotArtifactName(def.name.value)
IsInputType(def) == def.kind = "InputObjectTypeDefinition"
IsEnumType(def) == def.kind = "EnumTypeDefinition"

\* selected.map(def => record of def)
fieldsRecords(selected) ==
    The({MapAll([i \in 1..Len(ds) |-> fieldsRecord(ds[i])]) : ds \in {selected}})

types(defs) ==
    The({IF Threw(records) THEN records
         ELSE Return([i \in 1..Len(records.value) |-> typeFile(records.value[i])])
         : records \in {fieldsRecords(SelectSeq(defs, IsObjectType))}})

inputs(defs) ==
    The({IF Threw(records) THEN records
         ELSE Return([i \in 1..Len(records.value) |-> inputFile(records.value[i])])
         : records \in {fieldsRecords(SelectSeq(defs, IsInputType))}})

enums(defs) ==
    The({Return([i \in 1..Len(selected) |-> enumFile(enumRecord(selected[i]))])
         : selected \in {SelectSeq(defs, IsEnumType)}})

\* the arguments of a field of a root container
argumentRecords(op) ==
    \* op.arguments.map
    IF ~HasProp(op, "arguments") THEN TypeErrorOf("map")
    ELSE MapAll([i \in 1..Len(op.arguments) |-> fieldRecord(op.arguments[i])])

\* the record of one field of a root container
operationRecord(op) ==
    The({IF Threw(c) THEN c
         ELSE IF Threw(arguments) THEN arguments
         ELSE Return([name |-> op.name.value,
                      description |-> descriptionOf(op),
                      graphqlType |-> c.value.type,
                      type |-> mappedType(c.value.type),
                      isNullable |-> c.value.isNullable,
                      isArray |-> c.value.isArray,
                      arguments |-> arguments.value,
                      hasArguments |-> Len(arguments.value) > 0])
         : c \in {getGraphqlType(op.type)}, arguments \in {argumentRecords(op)}})

\* def.name.value === rootName
IsNamed(def, rootName) == def.name.value = rootName

\* schema.definitions.filter(def => def.name.value === rootName)[0]
rootContainer(defs, rootName) ==
    IF \E i \in 1..Len(defs) : ~HasProp(defs[i], "name")
    THEN TypeErrorOf("value")
    ELSE LET IsRoot(def) == IsNamed(def, rootName)
         IN The({IF selected = <<>> THEN Return(Undefined) ELSE Return(selected[1])
                 : selected \in {SelectSeq(defs, IsRoot)}})

\* the records of the fields of the root container named rootName
operations(defs, rootName) ==
    The({IF Threw(root) THEN root
         ELSE IF IsUndefined(root.value) THEN TypeErrorOf("fields")
         \* .fields.map
         ELSE IF ~HasProp(root.value, "fields") THEN TypeErrorOf("map")
         ELSE MapAll([i \in 1..Len(root.value.fields) |->
                         operationRecord(root.value.fields[i])])
         : root \in {rootContainer(defs, rootName)}})

queryOperations(defs) ==
    The({IF Threw(records) THEN records
         ELSE Return([i \in 1..Len(records.value) |-> queryFile(records.value[i])])
         : records \in {operations(defs, "Query")}})

mutationOperations(defs) ==
    The({IF Threw(records) THEN records
         ELSE Return([i \in 1..Len(records.value) |-> mutationFile(records.value[i])])
         : records \in {operations(defs, "Mutation")}})

\* generate(schema): the five lists are built in the order types, inputs,
\* enums, query operations, mutation operations; the first exception ends it
generate(defs) ==
    The({IF Threw(t) THEN t
         ELSE IF Threw(i) THEN i
         ELSE IF Threw(q) THEN q
         ELSE IF Threw(m) THEN m
         ELSE Return(i.value \o e.value \o t.value \o q.value \o m.value)
         : t \in {types(defs)}, i \in {inputs(defs)}, e \in {enums(defs)},
           q \in {queryOperations(defs)}, m \in {mutationOperations(defs)}})

-----------------------------------------------------------------------------
(* Output directory.  Every path is relative to the output directory, which *)
(* path.resolve(outputDirectory, file.filename) prefixes to it.             *)

\* path.dirname
dirname(path) == SubSeq(path, 1, Len(path) - 1)

\* fs.mkdirSync(dir, { recursive: true }) creates dir and its missing ancestors
mkdirRecursive(existing, dir) == existing \cup {SubSeq(dir, 1, k) : k \in 1..Len(dir)}

\* a write that appends to an existing file (fs.appendFileSync)
writeFile_append(disk, path, contents) ==
    [p \in DOMAIN disk \cup {path} |->
        IF p # path THEN disk[p]
        ELSE IF p \in DOMAIN disk THEN [appended |-> contents, to |-> disk[p]]
        ELSE contents]

\* a write that leaves an existing file as it is (flag 'wx')
writeFile_keepExisting(disk, path, contents) ==
    [p \in DOMAIN disk \cup {path} |-> IF p \in DOMAIN disk THEN disk[p] ELSE contents]

\* fs.writeFileSync(path, contents, 'utf8') creates or overwrites the file
writeFile(disk, path, contents) ==
    [p \in DOMAIN disk \cup {path} |-> IF p = path THEN contents ELSE disk[p]]

\* what an earlier run or the user may have left in the output directory
StaleContents == renderTemplate("stale", [name |-> "stale"])
StalePaths == {<<"types", "Widget.ts">>, <<"resolvers", "mutations", "a.ts">>}
EmptyDisk == [p \in {} |-> StaleContents]
StaleDisk == [p \in StalePaths |-> StaleContents]
StaleDirs == UNION {mkdirRecursive({}, dirname(p)) : p \in StalePaths}

\* the output directory at the start of an invocation
Snapshot(disk, existing, paths) == [fs |-> disk, dirs |-> existing, written |-> paths]

-----------------------------------------------------------------------------
(* Resolver run: one type node is resolved, then its base name is mapped *)

TypeInit ==
    /\ fieldType \in TypeNodes(MaxDepth)
    /\ descriptor = NotRun
    /\ tsType = NotRun
    /\ schema = <<>>
    /\ pc = "idle"
    /\ files = <<>>
    /\ err = ""
    /\ idx = 0
    /\ fs = EmptyDisk
    /\ dirs = {}
    /\ written = {}
    /\ run = 0
    /\ before = Snapshot(EmptyDisk, {}, {})

ResolveType ==
    /\ pc = "idle"
    /\ descriptor = NotRun
    /\ descriptor' = getGraphqlType(fieldType)
    /\ UNCHANGED <<fieldType, tsType>>
    /\ UNCHANGED runVars

MapScalar ==
    /\ pc = "idle"
    /\ HasRun(descriptor)
    /\ ~Threw(descriptor)
    /\ tsType = NotRun
    /\ tsType' = Return(mappedType(descriptor.value.type))
    /\ UNCHANGED <<fieldType, descriptor>>
    /\ UNCHANGED runVars

TypeNext == ResolveType \/ MapScalar

SpecTypes == TypeInit /\ [][TypeNext]_vars

-----------------------------------------------------------------------------
(* Command run: the action callback of the generate command, after the     *)
(* schema file has been read and parsed                                     *)

Init ==
    /\ schema \in Documents(MaxDefs)
    /\ pc = "start"
    /\ files = <<>>
    /\ err = ""
    /\ idx = 0
    /\ \E stale \in BOOLEAN :
          /\ fs = IF stale THEN StaleDisk ELSE EmptyDisk
          /\ dirs = IF stale THEN StaleDirs ELSE {}
    /\ written = {}
    /\ run = 1
    /\ before = Snapshot(fs, dirs, {})
    /\ fieldType = NotRun
    /\ descriptor = NotRun
    /\ tsType = NotRun

\* a run that prepares the types directory before it generates
Generate_mkdirFirst ==
    /\ pc = "start"
    /\ \E c \in {generate(schema)} :
          IF Threw(c)
          THEN /\ pc' = "aborted"
               /\ err' = c.thrown
               /\ UNCHANGED <<files, idx>>
          ELSE /\ pc' = "writing"
               /\ files' = c.value
               /\ idx' = 1
               /\ err' = ""
    /\ dirs' = mkdirRecursive(dirs, <<"types">>)
    /\ UNCHANGED <<schema, fs, written, run, before>>
    /\ UNCHANGED typeVars

\* const files = generate(schema): an exception is not caught and ends the run
Generate ==
    /\ pc = "start"
    /\ \E c \in {generate(schema)} :
          IF Threw(c)
          THEN /\ pc' = "aborted"
               /\ err' = c.thrown
               /\ UNCHANGED <<files, idx>>
          ELSE /\ pc' = "writing"
               /\ files' = c.value
               /\ idx' = 1
               /\ err' = ""
    /\ UNCHANGED <<schema, fs, dirs, written, run, before>>
    /\ UNCHANGED typeVars

\* fs.readFileSync(schemaFilePath) or parse(schemaContents) throws
ParseThrows ==
    /\ pc = "start"
    /\ pc' = "aborted"
    /\ err' = "GraphQLError: Syntax Error"
    /\ UNCHANGED <<schema, files, idx, fs, dirs, written, run, before>>
    /\ UNCHANGED typeVars

\* loadTemplate throws inside generate: a template file cannot be read or
\* compiled
TemplateThrows ==
    /\ pc = "start"
    /\ pc' = "aborted"
    /\ err' = "Error: ENOENT: no such file or directory, open template"
    /\ UNCHANGED <<schema, files, idx, fs, dirs, written, run, before>>
    /\ UNCHANGED typeVars

\* one iteration of the for-of loop
WriteFile ==
    /\ pc = "writing"
    /\ idx <= Len(files)
    /\ LET file == files[idx]
           outputFilename == file.filename
           dir == dirname(outputFilename)
       IN /\ dirs' = IF dir \in dirs THEN dirs ELSE mkdirRecursive(dirs, dir)
          /\ fs' = writeFile(fs, outputFilename, file.contents)
          /\ written' = written \cup {outputFilename}
    /\ idx' = idx + 1
    /\ UNCHANGED <<schema, pc, files, err, run, before>>
    /\ UNCHANGED typeVars

\* a failure handler that rolls the output directory back to its state before the run
WriteThrows_rollback ==
    /\ pc = "writing"
    /\ idx <= Len(files)
    /\ err' = "Error: write failed"
    /\ pc' = "failed"
    /\ fs' = before.fs
    /\ dirs' = before.dirs
    /\ written' = {}
    /\ UNCHANGED <<schema, files, idx, run, before>>
    /\ UNCHANGED typeVars

\* mkdirSync or writeFileSync throws: the exception ends the run
WriteThrows ==
    /\ pc = "writing"
    /\ idx <= Len(files)
    /\ LET dir == dirname(files[idx].filename)
       IN \/ /\ dir \notin dirs
             /\ err' = "Error: mkdir failed"
             /\ UNCHANGED dirs
          \/ /\ err' = "Error: write failed"
             /\ dirs' = IF dir \in dirs THEN dirs ELSE mkdirRecursive(dirs, dir)
    /\ pc' = "failed"
    /\ UNCHANGED <<schema, files, idx, fs, written, run, before>>
    /\ UNCHANGED typeVars

\* the loop has visited every file
LoopExit ==
    /\ pc = "writing"
    /\ idx > Len(files)
    /\ pc' = "done"
    /\ UNCHANGED <<schema, files, err, idx, fs, dirs, written, run, before>>
    /\ UNCHANGED typeVars

\* the command is invoked again on the same schema file and output directory
Rerun ==
    /\ pc = "done"
    /\ run < MaxRuns
    /\ run' = run + 1
    /\ before' = Snapshot(fs, dirs, written)
    /\ pc' = "start"
    /\ files' = <<>>
    /\ idx' = 0
    /\ written' = {}
    /\ UNCHANGED <<schema, err, fs, dirs>>
    /\ UNCHANGED typeVars

Next ==
    \/ Generate
    \/ ParseThrows
    \/ TemplateThrows
    \/ WriteFile
    \/ WriteThrows
    \/ LoopExit
    \/ Rerun

Spec == Init /\ [][Next]_vars

-----------------------------------------------------------------------------
(* Properties of the type resolver and of the scalar mapping (SpecTypes) *)

Descriptor(n, nullable, array) ==
    Return([type |-> n, isNullable |-> nullable, isArray |-> array])

\* C1: for every name n, the four shapes n, n!, [n!] and [n!]! resolve to
\* (n, true, false), (n, false, false), (n, true, true) and (n, false, true).
C1_FourShapes ==
    HasRun(descriptor) =>
        \A n \in BaseNames :
            /\ fieldType = NamedType(n) => descriptor = Descriptor(n, TRUE, FALSE)
            /\ fieldType = NonNullType(NamedType(n))
                   => descriptor = Descriptor(n, FALSE, FALSE)
            /\ fieldType = ListType(NonNullType(NamedType(n)))
                   => descriptor = Descriptor(n, TRUE, TRUE)
            /\ fieldType = NonNullType(ListType(NonNullType(NamedType(n))))
                   => descriptor = Descriptor(n, FALSE, TRUE)

\* a non-null list of non-null names has been resolved
C1_Witness ==
    /\ fieldType = NonNullType(ListType(NonNullType(NamedType("String"))))
    /\ descriptor = Descriptor("String", FALSE, TRUE)

\* C2: a list of plain named elements is a recognized shape: [n] resolves to
\* (n, true, true) and [n]! to (n, false, true), without failing.
C2_ListOfNamed ==
    HasRun(descriptor) =>
        \A n \in BaseNames :
            /\ fieldType = ListType(NamedType(n)) => descriptor = Descriptor(n, TRUE, TRUE)
            /\ fieldType = NonNullType(ListType(NamedType(n)))
                   => descriptor = Descriptor(n, FALSE, TRUE)

\* the shapes of the resolver's table: n, n!, [n], [n!], [n]!, [n!]!
IsNamedOrNonNullNamed(t) ==
    \/ t.kind = "NamedType"
    \/ t.kind = "NonNullType" /\ t.type.kind = "NamedType"

IsListOfNames(t) == t.kind = "ListType" /\ IsNamedOrNonNullNamed(t.type)

IsRecognizedShape(t) ==
    \/ IsNamedOrNonNullNamed(t)
    \/ IsListOfNames(t)
    \/ t.kind = "NonNullType" /\ IsListOfNames(t.type)

UnsupportedShapeErrors ==
    {"Error: Unsupported type hierarchy", "Error: Unsupported type nesting level",
     "Error: Unsupported case"}

\* C3: every type node outside the recognized shapes makes getGraphqlType fail
\* with an unsupported-type-shape error; none is coerced into a descriptor.
C3_UnsupportedShapesFail ==
    (HasRun(descriptor) /\ ~IsRecognizedShape(fieldType)) =>
        /\ Threw(descriptor)
        /\ descriptor.thrown \in UnsupportedShapeErrors

\* the documented scalar table; every other name stands for itself
DocumentedMapping(n) ==
    CASE n \in {"ID", "String"} -> "string"
      [] n \in {"Float", "Int"} -> "number"
      [] n = "Boolean" -> "boolean"
      [] n = "DateTime" -> "Date"
      [] n = "Dictionary" -> "{ [key: string]: any }"
      [] OTHER -> n

\* C4: the scalar mapping is total: the seven fixed names map to their
\* primitives and every other base name maps to itself.
C4_ScalarTotality ==
    HasRun(tsType) =>
        /\ ~Threw(tsType)
        /\ tsType.value = DocumentedMapping(descriptor.value.type)

-----------------------------------------------------------------------------
(* Properties of the command run (Spec) *)

\* generate(schema) has returned its list
Generated == pc \in {"writing", "done", "failed"}

ReservedNames == {"Query", "Mutation", "Subscription", "root"}

IsKind(def, k) == def.kind = k
InputDefs(defs) == LET P(d) == IsKind(d, "InputObjectTypeDefinition") IN SelectSeq(defs, P)
EnumDefs(defs) == LET P(d) == IsKind(d, "EnumTypeDefinition") IN SelectSeq(defs, P)
ObjectDefs(defs) ==
    LET P(d) == IsKind(d, "ObjectTypeDefinition") /\ d.name.value \notin ReservedNames
    IN SelectSeq(defs, P)
\* the object-type definitions named n
RootDefs(defs, n) ==
    LET P(d) == IsKind(d, "ObjectTypeDefinition") /\ d.name.value = n
    IN SelectSeq(defs, P)

RECURSIVE FieldsOfAll(_)
FieldsOfAll(defs) ==
    IF defs = <<>> THEN <<>> ELSE Head(defs).fields \o FieldsOfAll(Tail(defs))

NamesOf(nodes) == [i \in 1..Len(nodes) |-> nodes[i].name.value]

\* an artifact seen from outside: its template, directory and file name
ArtifactKey(file) == <<file.contents.template, file.filename>>
KeysIn(template, dir, names) ==
    [i \in 1..Len(names) |-> <<template, dir \o <<names[i] \o ".ts">> >>]

\* C5: generate returns N+M+K+P+Q artifacts: the inputs, then the enums, then
\* the object types, then one per field of the Query root, then one per field
\* of the Mutation root, each group in definition order.
C5_CardinalityAndOrder ==
    Generated =>
        LET queryFields == FieldsOfAll(RootDefs(schema, "Query"))
            mutationFields == FieldsOfAll(RootDefs(schema, "Mutation"))
        IN /\ Len(files) = Len(InputDefs(schema)) + Len(EnumDefs(schema))
                             + Len(ObjectDefs(schema))
                             + Len(queryFields) + Len(mutationFields)
           /\ [i \in 1..Len(files) |-> ArtifactKey(files[i])]
                = KeysIn("input", <<"inputs">>, NamesOf(InputDefs(schema)))
                  \o KeysIn("enum", <<"types">>, NamesOf(EnumDefs(schema)))
                  \o KeysIn("type", <<"types">>, NamesOf(ObjectDefs(schema)))
                  \o KeysIn("resolver", <<"resolvers", "queries">>, NamesOf(queryFields))
                  \o KeysIn("resolver", <<"resolvers", "mutations">>,
                            NamesOf(mutationFields))

\* the artifacts rendered with the object-type template
TypeArtifacts == {i \in 1..Len(files) : files[i].contents.template = "type"}

\* C6: the object-type artifacts of generate's output never carry one of the
\* names Query, Mutation, Subscription, root, and every other object-type
\* definition has its artifact.
C6_ReservedNamesExcluded ==
    Generated =>
        /\ \A i \in TypeArtifacts : files[i].contents.data.name \notin ReservedNames
        /\ \A k \in 1..Len(schema) :
              (schema[k].kind = "ObjectTypeDefinition"
                  /\ schema[k].name.value \notin ReservedNames)
              => \E i \in TypeArtifacts :
                     /\ files[i].contents.data.name = schema[k].name.value
                     /\ files[i].filename = <<"types", schema[k].name.value \o ".ts">>

Contains(defs, d) == \E k \in 1..Len(defs) : defs[k] = d

\* a document with the two roots, a placeholder and an ordinary object type
\* has been generated
C6_Witness ==
    /\ Generated
    /\ Contains(schema, SubscriptionType)
    /\ Contains(schema, WidgetType)
    /\ \E i \in TypeArtifacts : files[i].contents.data.name = "Widget"

\* the names of the operation artifacts filed under resolvers/<dir>
OperationNames(dir) ==
    LET P(f) == SubSeq(f.filename, 1, 2) = <<"resolvers", dir>>
        ops == SelectSeq(files, P)
    IN [i \in 1..Len(ops) |-> ops[i].contents.data.name]

\* C7: with exactly one object-type definition named Query and exactly one
\* named Mutation, whatever else the document holds, the query operations are
\* the fields of that Query definition and the mutation operations the fields
\* of that Mutation definition.
C7_OperationsOfTheRoots ==
    (Generated /\ Len(RootDefs(schema, "Query")) = 1
               /\ Len(RootDefs(schema, "Mutation")) = 1) =>
        /\ OperationNames("queries") = NamesOf(RootDefs(schema, "Query")[1].fields)
        /\ OperationNames("mutations") = NamesOf(RootDefs(schema, "Mutation")[1].fields)

\* C8: a document without a Mutation root, or without a Query root, makes
\* extraction fail, and nothing has been written for that category.
C8_MissingRootFails ==
    (pc # "start" /\ (RootDefs(schema, "Query") = <<>>
                        \/ RootDefs(schema, "Mutation") = <<>>)) =>
        /\ pc = "aborted"
        /\ written = {}

\* the type nodes of the fields and of the arguments of a definition
TypeNodesOf(def) ==
    IF ~HasProp(def, "fields") THEN {}
    ELSE {def.fields[i].type : i \in 1..Len(def.fields)}
         \cup UNION {IF HasProp(def.fields[i], "arguments")
                     THEN {def.fields[i].arguments[j].type :
                               j \in 1..Len(def.fields[i].arguments)}
                     ELSE {} : i \in 1..Len(def.fields)}

HasUnsupportedShape(defs) ==
    \E k \in 1..Len(defs) : \E t \in TypeNodesOf(defs[k]) : ~IsRecognizedShape(t)

\* C9: a field or argument of an unsupported shape anywhere in the document
\* aborts the run: generate returns no list.
C9_UnsupportedShapeAborts ==
    (pc # "start" /\ HasUnsupportedShape(schema)) => pc = "aborted"

\* C10: after a successful run every artifact has a file of its own.
C10_OneFilePerArtifact ==
    pc = "done" => Cardinality(written) = Len(files)

Distinct(names) ==
    \A i, j \in 1..Len(names) : names[i] = names[j] => i = j

\* the fields of the root the generator reads: the first definition named n
FirstNamed(defs, n) ==
    LET P(d) == d.name.value = n IN SelectSeq(defs, P)[1]

\* no two definitions filed under one directory share a name
NoSharedName(defs) ==
    /\ Distinct(NamesOf(InputDefs(defs)))
    /\ Distinct(NamesOf(EnumDefs(defs)) \o NamesOf(ObjectDefs(defs)))
    /\ Distinct(NamesOf(FirstNamed(defs, "Query").fields))
    /\ Distinct(NamesOf(FirstNamed(defs, "Mutation").fields))

\* C10 (amended): after a successful run on a document in which no two
\* definitions filed under one directory share a name, every artifact has a
\* file of its own.
C10_OneFilePerDistinctName ==
    (pc = "done" /\ NoSharedName(schema)) => Cardinality(written) = Len(files)

\* an enum and an object type of different names were written under types/
C10_Witness ==
    /\ pc = "done"
    /\ NoSharedName(schema)
    /\ Contains(schema, WidgetEnum)
    /\ Contains(schema, MatrixType)
    /\ Cardinality(written) = 5

\* the directory an artifact rendered with a template belongs to
IsCategoryDirectory(template, dir) ==
    \/ template = "input" /\ dir = <<"inputs">>
    \/ template \in {"enum", "type"} /\ dir = <<"types">>
    \/ template = "resolver"
         /\ dir \in {<<"resolvers", "queries">>, <<"resolvers", "mutations">>}

\* artifact i is filed as <category directory>/<name>.ts
WellPlaced(i) ==
    /\ IsCategoryDirectory(files[i].contents.template, dirname(files[i].filename))
    /\ files[i].filename[Len(files[i].filename)] = files[i].contents.data.name \o ".ts"

\* the file of artifact i exists, in an existing directory
FileExists(i) ==
    /\ dirname(files[i].filename) \in dirs
    /\ files[i].filename \in DOMAIN fs

\* C11: after a successful run the file of every artifact exists under its
\* category directory and holds exactly that artifact's text, whatever the
\* output directory held before.
C11_EveryArtifactOnDisk ==
    pc = "done" =>
        \A i \in 1..Len(files) :
            /\ WellPlaced(i)
            /\ FileExists(i)
            /\ fs[files[i].filename] = files[i].contents

\* the last artifact of the list filed under the path of artifact i
LastWithPathOf(i) ==
    CHOOSE j \in i..Len(files) :
        /\ files[j].filename = files[i].filename
        /\ \A k \in (j + 1)..Len(files) : files[k].filename # files[i].filename

\* C11 (amended): after a successful run the file of every artifact exists
\* under its category directory and holds the text of the last artifact of the
\* list filed under that path (the artifact's own text when no later artifact
\* shares its path), whatever the output directory held before.
C11_LastArtifactOnDisk ==
    pc = "done" =>
        \A i \in 1..Len(files) :
            /\ WellPlaced(i)
            /\ FileExists(i)
            /\ fs[files[i].filename] = files[LastWithPathOf(i)].contents

\* a run that found a stale types/Widget.ts has replaced it by the artifact
C11_Witness ==
    /\ pc = "done"
    /\ run = 1
    /\ before.fs = StaleDisk
    /\ \E i \in 1..Len(files) :
          /\ files[i].filename = <<"types", "Widget.ts">>
          /\ fs[files[i].filename] = files[i].contents
          /\ fs[files[i].filename] # before.fs[files[i].filename]

\* C12: running the generator again on the same schema and the same output
\* directory leaves the directory exactly as the previous run left it: the same
\* directories, the same files with the same contents, the same paths written.
C12_SecondRunChangesNothing ==
    (run > 1 /\ pc = "done") =>
        /\ fs = before.fs
        /\ dirs = before.dirs
        /\ written = before.written

\* a second run that has written files over those of the first run
C12_Witness ==
    /\ run = 2
    /\ pc = "done"
    /\ written # {}
    /\ \A path \in written : path \in DOMAIN before.fs

\* the paths this run has not written are as they were before the run
UntouchedPathsKept ==
    /\ DOMAIN fs = DOMAIN before.fs \cup written
    /\ \A path \in DOMAIN fs \ written : fs[path] = before.fs[path]

\* C13: files are written one at a time in list order without retry or
\* rollback: when the directory creation or the write of the k-th file fails,
\* the run has ended with each of the first k-1 files written with its new
\* content and none of the k-th or later files written by this run.
C13_ExactlyFirstFilesWritten ==
    pc = "failed" =>
        /\ \A i \in 1..(idx - 1) :
              /\ files[i].filename \in written
              /\ fs[files[i].filename] = files[i].contents
        /\ \A j \in idx..Len(files) : files[j].filename \notin written
        /\ UntouchedPathsKept

\* the last of the first k-1 artifacts filed under the path of artifact i
LastWrittenWithPathOf(i) ==
    CHOOSE j \in i..(idx - 1) :
        /\ files[j].filename = files[i].filename
        /\ \A k \in (j + 1)..(idx - 1) : files[k].filename # files[i].filename

\* C13 (amended): when the directory creation or the write of the k-th file
\* fails, the run has ended with exactly the paths of the first k-1 files
\* written, each holding the content of the last of those k-1 files filed under
\* it; the path of the k-th or a later file is written by this run only when
\* one of the first k-1 files shares it, and every other path is as before.
C13_ExactlyFirstWritesDone ==
    pc = "failed" =>
        /\ written = {files[i].filename : i \in 1..(idx - 1)}
        /\ \A i \in 1..(idx - 1) :
              fs[files[i].filename] = files[LastWrittenWithPathOf(i)].contents
        /\ UntouchedPathsKept

\* a run that failed after its first writes, with a later file still missing
C13_Witness ==
    /\ pc = "failed"
    /\ idx > 1
    /\ written # {}
    /\ \E j \in idx..Len(files) : files[j].filename \notin DOMAIN fs

\* the string the AST holds as the description of a node, empty when it has none
AstDescription(node) ==
    IF HasProp(node, "description") THEN node.description.value ELSE ""

\* the records carry, position by position, the names and descriptions of the nodes
SameTexts(records, nodes) ==
    /\ Len(records) = Len(nodes)
    /\ \A k \in 1..Len(nodes) :
          /\ records[k].name = nodes[k].name.value
          /\ records[k].description = AstDescription(nodes[k])

\* the records of the artifacts rendered with a template into a directory, in list order
RecordsOf(template, dir) ==
    LET P(f) == f.contents.template = template /\ dirname(f.filename) = dir
        selected == SelectSeq(files, P)
    IN [k \in 1..Len(selected) |-> selected[k].contents.data]

\* the records of the fields of each definition carry the fields' texts
FieldTextsKept(records, defs) ==
    /\ Len(records) = Len(defs)
    /\ \A k \in 1..Len(defs) : SameTexts(records[k].fields, defs[k].fields)

\* the records of the operations of a root and of their arguments carry their texts
OperationTextsKept(records, root) ==
    /\ SameTexts(records, root.fields)
    /\ \A k \in 1..Len(root.fields) :
          SameTexts(records[k].arguments, root.fields[k].arguments)

\* C14: the record built for every object-type field, input field, operation
\* and operation argument carries the AST node's name and description
\* unchanged, at the node's position in its definition.
C14_NamesAndDescriptionsKept ==
    Generated =>
        /\ FieldTextsKept(RecordsOf("type", <<"types">>), ObjectDefs(schema))
        /\ FieldTextsKept(RecordsOf("input", <<"inputs">>), InputDefs(schema))
        /\ OperationTextsKept(RecordsOf("resolver", <<"resolvers", "queries">>),
                              FirstNamed(schema, "Query"))
        /\ OperationTextsKept(RecordsOf("resolver", <<"resolvers", "mutations">>),
                              FirstNamed(schema, "Mutation"))

\* a document with described and undescribed fields, input fields, operations
\* and arguments has been generated
C14_Witness ==
    /\ Generated
    /\ Contains(schema, WidgetType)
    /\ Contains(schema, WidgetInput)
    /\ FirstNamed(schema, "Query") = QueryType
    /\ FirstNamed(schema, "Mutation") = MutationType
    /\ RecordsOf("resolver", <<"resolvers", "mutations">>)[1].arguments[1].description
          = "the x"

\* the output directory is as it was before the run
OutputUntouched ==
    /\ fs = before.fs
    /\ dirs = before.dirs
    /\ written = {}

\* C15: no directory is created and no file is written unless generate has
\* returned successfully: before generate returns, and after a parse,
\* type-resolution, missing-root or rendering failure, the output directory is
\* exactly as it was before the run.
C15_NoWriteBeforeGenerateReturns ==
    /\ ~Generated => OutputUntouched
    /\ pc = "aborted" => err # "" /\ OutputUntouched

\* a run over a used output directory has ended on a failure of generate
C15_Witness ==
    /\ pc = "aborted"
    /\ Len(schema) > 0
    /\ before.fs = StaleDisk
    /\ before.dirs = StaleDirs
    /\ err \notin {"GraphQLError: Syntax Error",
                   "Error: ENOENT: no such file or directory, open template"}

\* two completions of the resolver agree except for the nullable flag: both
\* fail, or both succeed on one base name as arrays, the first nullable and
\* the second not
DifferOnlyInNullable(list, nonNullList) ==
    IF Threw(list) \/ Threw(nonNullList)
    THEN Threw(list) /\ Threw(nonNullList)
    ELSE /\ list.value.type = nonNullList.value.type
         /\ list.value.isArray /\ nonNullList.value.isArray
         /\ list.value.isNullable /\ ~nonNullList.value.isNullable

\* C16: wrapping a list type in NonNull changes only the nullable flag: for
\* every element e, List(e) and NonNull(List(e)) both fail, or both resolve to
\* the same base name with isArray true, nullable for the first and not for
\* the second.
C16_NonNullListFlipsNullableOnly ==
    (HasRun(descriptor) /\ fieldType.kind = "ListType") =>
        DifferOnlyInNullable(descriptor, getGraphqlType(NonNullType(fieldType)))

\* definitions of kinds other than object type, input type and enum
OtherKindDefinitions ==
    {d \in Definitions :
        d.kind \notin {"ObjectTypeDefinition", "InputObjectTypeDefinition",
                       "EnumTypeDefinition"}}

\* the document with definition d added after its first p definitions
Insert(defs, p, d) == SubSeq(defs, 1, p) \o <<d>> \o SubSeq(defs, p + 1, Len(defs))

\* C17: definitions of other kinds (scalar, type extension, the schema block
\* without a name) are ignored: adding one at any position of a document on
\* which generate succeeds makes generate succeed again with the same list.
C17_OtherKindsIgnored ==
    Generated =>
        \A d \in OtherKindDefinitions : \A p \in 0..Len(schema) :
            generate(Insert(schema, p, d)) = Return(files)

====
